---- MODULE Spec2Model ----
(***************************************************************************)
(* Model of examples/1-advanced/018-dmrg_casscf_for_feporph.py.            *)
(*                                                                         *)
(* Three specifications:                                                   *)
(*   Spec        the function dmet_cas (lines 35-87) called by a client    *)
(*               with arguments (mc, dm, implst) while the module-level    *)
(*               name mol is bound to the molecule of mc;                  *)
(*   ModuleSpec  the same, and the module-level name mol, which the        *)
(*               function reads at lines 43-44, may be assigned;           *)
(*   ScriptSpec  the module-level statements of the script (lines 98-217)  *)
(*               executed top to bottom.                                   *)
(*                                                                         *)
(* Matrices are sequences of rows with integer entries and all products    *)
(* are computed exactly.  scipy.linalg.eigh is modelled on diagonal        *)
(* matrices, where it is a sort: the inputs are mean-field solutions whose *)
(* orbitals are the orthogonalized atomic orbitals in some order, so every *)
(* block handed to eigh is diagonal whenever the module-level molecule is  *)
(* the molecule of mc.  A call that hands eigh a non-diagonal block ends   *)
(* with exc = "Unmodelled" and no claim is made about it.                  *)
(***************************************************************************)
EXTENDS Integers, Sequences, FiniteSets, TLC

\* Largest number of atomic orbitals of a molecule.
MaxNao == 4

\* mol.spin, the number of unpaired electrons: line 141 and line 182
SpinQuintet == 4
SpinTriplet == 2

----------------------------------------------------------------------------
(* numpy: dense matrices, 1-based rows of 1-based entries.                 *)

RECURSIVE Sum(_, _)
Sum(f, n) == IF n = 0 THEN 0 ELSE f[n] + Sum(f, n - 1)

\* an array with every entry evaluated and stored
Dense(A) == [i \in 1..Len(A) |-> A[i] \o <<>>] \o <<>>

NRows(A) == Len(A)
NCols(A) == IF A = <<>> THEN 0 ELSE Len(A[1])

Identity(n) == Dense([i \in 1..n |-> [j \in 1..n |-> IF i = j THEN 1 ELSE 0]])

\* A.T
Transpose(A) == Dense([j \in 1..NCols(A) |-> [i \in 1..NRows(A) |-> A[i][j]]])

\* numpy.dot(A, B)
Dot(A, B) ==
    Dense([i \in 1..NRows(A) |->
            [j \in 1..NCols(B) |->
                Sum([k \in 1..NRows(B) |-> A[i][k] * B[k][j]], NRows(B))]])

\* A + B
Add(A, B) ==
    Dense([i \in 1..NRows(A) |-> [j \in 1..NCols(A) |-> A[i][j] + B[i][j]]])

\* -A
Neg(A) == Dense([i \in 1..NRows(A) |-> [j \in 1..NCols(A) |-> 0 - A[i][j]]])

\* A * v : broadcasting scales column j by v[j]
ScaleCols(A, v) ==
    Dense([i \in 1..NRows(A) |-> [j \in 1..NCols(A) |-> A[i][j] * v[j]]])

\* A[idx] with idx an array of 0-based row indices
TakeRows(A, idx) == Dense([k \in 1..Len(idx) |-> A[idx[k] + 1]])

\* A[:, idx] with idx an array of 0-based column indices
TakeCols(A, idx) ==
    Dense([i \in 1..NRows(A) |-> [k \in 1..Len(idx) |-> A[i][idx[k] + 1]]])

\* numpy.hstack((A, B))
hstack(A, B) == Dense([i \in 1..NRows(A) |-> A[i] \o B[i]])

\* Python's normalisation of a slice bound against a length
PyBound(i, len) ==
    LET j == IF i < 0 THEN i + len ELSE i
    IN  IF j < 0 THEN 0 ELSE IF j > len THEN len ELSE j

\* the 0-based positions selected by [start:stop] on a sequence of length len
PySlice(len, start, stop) ==
    LET a == PyBound(start, len)
        b == PyBound(stop, len)
    IN  [k \in 1..(IF b > a THEN b - a ELSE 0) |-> a + k - 1] \o <<>>

\* A[:, start:stop]
SliceCols(A, start, stop) == TakeCols(A, PySlice(NCols(A), start, stop))

\* A[:, start:]
SliceColsFrom(A, start) == TakeCols(A, PySlice(NCols(A), start, NCols(A)))

IsDiagonal(A) ==
    \A i \in 1..NRows(A) : \A j \in 1..NCols(A) : i # j => A[i][j] = 0

\* scipy.linalg.eigh on a diagonal matrix: eigenvalues ascending, the
\* eigenvector of the k-th eigenvalue is the unit vector of the diagonal
\* position it came from (equal eigenvalues keep their positions' order).
EighRank(A, i) ==
    1 + Cardinality({j \in 1..NRows(A) :
                        A[j][j] < A[i][i] \/ (A[j][j] = A[i][i] /\ j < i)})

eigh(A) ==
    LET n == NRows(A)
    IN  [ok |-> IsDiagonal(A),
         w  |-> [k \in 1..n |->
                    A[CHOOSE i \in 1..n : EighRank(A, i) = k]
                     [CHOOSE i \in 1..n : EighRank(A, i) = k]],
         v  |-> Dense([i \in 1..n |-> [k \in 1..n |->
                    IF EighRank(A, i) = k THEN 1 ELSE 0]])]

----------------------------------------------------------------------------
(* pyscf objects the function reads.  A Mole is [nao, basis, spin]; the    *)
(* atomic basis is either orthonormal or has a non-trivial overlap.        *)

Bases == {"orthonormal", "skew"}

\* the matrix with ones on the diagonal and x at row 1, column 2
Shear(n, x) ==
    Dense([i \in 1..n |-> [j \in 1..n |->
            IF i = j THEN 1 ELSE IF i = 1 /\ j = 2 THEN x ELSE 0]])

\* mol.nao_nr()
nao_nr(m) == m.nao

\* mol.intor_symmetric('cint1e_ovlp_sph'): the overlap matrix, symmetric
\* positive definite
intor_symmetric(m) ==
    IF m.basis = "orthonormal"
    THEN Identity(m.nao)
    ELSE Dot(Transpose(Shear(m.nao, 0 - 1)), Shear(m.nao, 0 - 1))

\* lo.orth.orth_ao(mol, method='meta_lowdin'): corth with corth.T s corth = 1
orth_ao(m) ==
    IF m.basis = "orthonormal" THEN Identity(m.nao) ELSE Shear(m.nao, 1)

\* a converged scf.ROHF object on molecule m: the molecular orbitals are the
\* orthogonalized atomic orbitals taken in the order perm (0-based), with
\* ascending orbital energies and aufbau occupations: ndocc doubly occupied
\* orbitals, then mol.spin singly occupied ones
ROHF(m, perm, ndocc) ==
    [mo_coeff  |-> TakeCols(orth_ao(m), perm),
     mo_energy |-> [j \in 1..m.nao |-> j],
     mo_occ    |-> [j \in 1..m.nao |->
                      IF j <= ndocc THEN 2 ELSE IF j <= ndocc + m.spin THEN 1 ELSE 0]]

\* mf.make_rdm1(): the pair (alpha, beta) of spin density matrices
make_rdm1(mf) ==
    LET occa == [j \in 1..Len(mf.mo_occ) |-> IF mf.mo_occ[j] >= 1 THEN 1 ELSE 0]
        occb == [j \in 1..Len(mf.mo_occ) |-> IF mf.mo_occ[j] = 2 THEN 1 ELSE 0]
    IN  << Dot(ScaleCols(mf.mo_coeff, occa), Transpose(mf.mo_coeff)),
           Dot(ScaleCols(mf.mo_coeff, occb), Transpose(mf.mo_coeff)) >>

----------------------------------------------------------------------------
(* dmet_cas, lines 35-87                                                   *)

\* line 45
cinv_of(corth, s) == Dot(Transpose(corth), s)

\* line 49: the local name dm is rebound to the spin-summed density matrix
\* in the orthogonal basis
dm_orth_of(cinv, dmv) == Dot(Dot(cinv, Add(dmv[1], dmv[2])), Transpose(cinv))

\* line 57 without its filter: every index is taken for a bath candidate
notimp_all(nao, impv) == [k \in 1..nao |-> k - 1] \o <<>>

\* line 57
notimp_of(nao, impv) ==
    SelectSeq([k \in 1..nao |-> k - 1],
              LAMBDA i : \A j \in 1..Len(impv) : impv[j] # i)

\* lines 58 and 59 without the sign: eigh(dm[idx][:,idx])
Decompose_unnegated(dmo, idx) == eigh(TakeCols(TakeRows(dmo, idx), idx))

\* lines 58 and 59: eigh(-dm[idx][:,idx])
Decompose(dmo, idx) == eigh(Neg(TakeCols(TakeRows(dmo, idx), idx)))

\* line 62 taking one column too many: bathorb[:,:ncore+1]
mocore_one_more(bathorb, ncore) == SliceCols(bathorb, 0, ncore + 1)

\* line 62
mocore_of(bathorb, ncore) == SliceCols(bathorb, 0, ncore)

\* line 63 taking one bath column too many
mocas_one_more(imporb, bathorb, ncore, nbath) ==
    hstack(imporb, SliceCols(bathorb, ncore, ncore + nbath + 1))

\* line 63
mocas_of(imporb, bathorb, ncore, nbath) ==
    hstack(imporb, SliceCols(bathorb, ncore, ncore + nbath))

\* line 64 starting at ncore: bathorb[:,ncore:]
moext_from_ncore(bathorb, ncore, nbath) == SliceColsFrom(bathorb, ncore)

\* line 64
moext_of(bathorb, ncore, nbath) == SliceColsFrom(bathorb, ncore + nbath)

\* line 71
fock_of(s, hf_orb, mo_energy) ==
    Dot(Dot(Dot(s, ScaleCols(hf_orb, mo_energy)), Transpose(hf_orb)), s)

\* lines 73-75, 76-78, 79-81: rotate a block by the eigenvectors of the Fock
\* matrix restricted to it
Canonicalize(mo, fock) ==
    LET e == eigh(Dot(Dot(Transpose(mo), fock), mo))
    IN  [ok |-> e.ok, mo |-> Dot(mo, e.v)]

\* line 86 with the active block first
mo_init_active_first(mocore, mocas, moext) ==
    hstack(hstack(mocas, mocore), moext)

\* line 86
mo_init_of(mocore, mocas, moext) == hstack(hstack(mocore, mocas), moext)

\* the locals of a call that has not assigned them
NoFrame ==
    [line |-> 0, exc |-> "none", nimp |-> 0, nbath |-> 0,
     corth |-> <<>>, s |-> <<>>,
     dm |-> <<>>, implst |-> <<>>, notimp |-> <<>>,
     imporb |-> <<>>, bathorb |-> <<>>, sliced |-> <<>>,
     mocore |-> <<>>, mocas |-> <<>>, moext |-> <<>>, mo_init |-> <<>>]

\* One activation of dmet_cas(mcv, dmv, impv) with the module-level name mol
\* bound to the Mole g: the locals when it ends.  line is 87 when it returns
\* mo_init and the line that raised otherwise.  sliced holds the blocks as
\* assigned at lines 62-64; mocore, mocas, moext hold them as rebound at lines
\* 75, 78, 81.
dmet_cas_locals(mcv, dmv, impv, heapv, g) ==
    LET nao    == nao_nr(heapv[mcv.mol])
        ncore  == mcv.ncore
        ncas   == mcv.ncas
        nimp   == Len(impv)
        nbath  == ncas - nimp
        corth  == orth_ao(g)
        s      == intor_symmetric(g)
        cinv   == cinv_of(corth, s)
        dmo    == dm_orth_of(cinv, dmv)
        notimp == notimp_of(nao, impv)
        f49    == [NoFrame EXCEPT !.nimp = nimp, !.nbath = nbath,
                                  !.corth = corth, !.s = s, !.dm = dmo,
                                  !.implst = impv, !.notimp = notimp]
    IN
    IF nimp = 0
    THEN \* numpy.asarray([]) is a float array: not an index
         [f49 EXCEPT !.line = 58, !.exc = "IndexError"]
    ELSE
    IF notimp = <<>> THEN [f49 EXCEPT !.line = 59, !.exc = "IndexError"]
    ELSE
    LET di == Decompose(dmo, impv)
        db == Decompose(dmo, notimp)
    IN
    IF ~di.ok THEN [f49 EXCEPT !.line = 58, !.exc = "Unmodelled"]
    ELSE
    IF ~db.ok THEN [f49 EXCEPT !.line = 59, !.exc = "Unmodelled"]
    ELSE
    LET bathorb == Dot(TakeCols(corth, notimp), db.v)
        imporb  == Dot(TakeCols(corth, impv), di.v)
        mocore  == mocore_of(bathorb, ncore)
        mocas   == mocas_of(imporb, bathorb, ncore, nbath)
        moext   == moext_of(bathorb, ncore, nbath)
        f64     == [f49 EXCEPT !.imporb = imporb, !.bathorb = bathorb,
                               !.sliced = <<mocore, mocas, moext>>]
        fock    == fock_of(s, mcv._scf.mo_coeff, mcv._scf.mo_energy)
        cc      == Canonicalize(mocore, fock)
        ca      == Canonicalize(mocas, fock)
        ce      == Canonicalize(moext, fock)
    IN
    IF ~cc.ok THEN [f64 EXCEPT !.line = 74, !.exc = "Unmodelled"]
    ELSE
    IF ~ca.ok THEN [f64 EXCEPT !.line = 77, !.exc = "Unmodelled", !.mocore = cc.mo]
    ELSE
    IF ~ce.ok THEN [f64 EXCEPT !.line = 80, !.exc = "Unmodelled",
                               !.mocore = cc.mo, !.mocas = ca.mo]
    ELSE [f64 EXCEPT !.line = 87, !.mocore = cc.mo, !.mocas = ca.mo,
                     !.moext = ce.mo,
                     !.mo_init = mo_init_of(cc.mo, ca.mo, ce.mo)]

----------------------------------------------------------------------------
(* State.  heap holds the Mole objects; mol is the module-level name mol   *)
(* (0 while unbound); mf, mc, dm and implst are the mean-field object, the *)
(* solver object, the density matrices and the impurity list handed to     *)
(* dmet_cas; frame holds the locals of the latest call of dmet_cas.  pc,   *)
(* names and exc are the script's position in Stmts, the module-level      *)
(* names bound so far and the exception that ended it.                     *)

VARIABLES heap, mol, mf, mc, dm, implst, frame, pc, names, exc

vars == <<heap, mol, mf, mc, dm, implst, frame, pc, names, exc>>

MolIds == {1, 2}

OtherBasis(b) == IF b = "orthonormal" THEN "skew" ELSE "orthonormal"

\* the ascending list of the members of a set of indices
AscendingList(S) ==
    [k \in 1..Cardinality(S) |->
        CHOOSE x \in S : Cardinality({y \in S : y < x}) = k - 1] \o <<>>

\* 0-based orbital orders of a mean-field solution: as listed, or reversed
Orders(nao) ==
    { [j \in 1..nao |-> j - 1] \o <<>>, [j \in 1..nao |-> nao - j] \o <<>> }

\* the names bound when the module's imports and the def of dmet_cas have run
ImportedNames ==
    {"reduce", "numpy", "scipy", "scf", "gto", "mcscf", "fci", "dmrgscf",
     "mrpt", "dmet_cas"}

----------------------------------------------------------------------------
(* Spec and ModuleSpec: a client calls dmet_cas(mc, dm, implst) on a       *)
(* triplet or quintet molecule of its own, with mc built on the mean-field *)
(* object whose density matrices it passes; the impurity list is           *)
(* ascending, as line 157 builds it.  The second Mole object has the same  *)
(* number of atomic orbitals and the other kind of basis.                  *)

Init ==
    \E nao \in 1..MaxNao, basis \in Bases :
    \E spin \in {SpinTriplet, SpinQuintet} :
    \E ncore \in 0..nao, ncas \in 0..nao :
    \E perm \in Orders(nao), ndocc \in 0..nao :
    \E imp \in SUBSET (0..(nao - 1)) :
        /\ ncore + ncas <= nao
        /\ ndocc + spin <= nao
        /\ heap = [id \in MolIds |->
                     [nao   |-> nao,
                      basis |-> IF id = 1 THEN basis ELSE OtherBasis(basis),
                      spin  |-> spin]]
        /\ mol = 1
        /\ mf = ROHF(heap[1], perm, ndocc)
        /\ mc = [ncore |-> ncore, ncas |-> ncas, mol |-> 1, _scf |-> mf]
        /\ dm = make_rdm1(mf)
        /\ implst = AscendingList(imp)
        /\ frame = NoFrame
        /\ pc = 0
        /\ names = ImportedNames \cup {"mol", "mf", "mc", "idx"}
        /\ exc = "none"

\* line 49 writing through the caller's dm instead of rebinding the local
dmet_cas_stores_inplace ==
    /\ dm' = <<frame'.dm, frame'.dm>>
    /\ UNCHANGED <<heap, mol, mf, mc, implst>>

\* what a call stores outside its own locals: nothing
dmet_cas_stores == UNCHANGED <<heap, mol, mf, mc, dm, implst>>

\* mo = dmet_cas(mc, dm, implst)
dmet_cas ==
    /\ frame' = dmet_cas_locals(mc, dm, implst, heap, heap[mol])
    /\ dmet_cas_stores
    /\ UNCHANGED <<pc, names, exc>>

\* line 98: an assignment to the module-level name mol
BindMol ==
    /\ \E id \in MolIds \ {mol} : mol' = id
    /\ UNCHANGED <<heap, mf, mc, dm, implst, frame, pc, names, exc>>

Next == dmet_cas

Spec == Init /\ [][Next]_vars

ModuleNext == dmet_cas \/ BindMol

ModuleSpec == Init /\ [][ModuleNext]_vars

----------------------------------------------------------------------------
(* ScriptSpec: the module-level statements, lines 98-217, run in order.    *)
(* Stmts lists each statement with the module-level names it reads and the *)
(* names it binds.  The molecule of lines 99-138 is stood for by a small   *)
(* one (its number of atomic orbitals and its kind of basis chosen when    *)
(* the statements run) and the converged mean field of line 146 by a       *)
(* member of the ROHF family.                                              *)

Stmt(line, uses, defs) == [line |-> line, uses |-> uses, defs |-> defs]

Stmts ==
    << Stmt(98,  {"gto"}, {"mol"}),
       Stmt(99,  {"mol"}, {}),
       Stmt(138, {"mol"}, {}),
       Stmt(139, {"mol"}, {}),
       Stmt(140, {"mol"}, {}),
       Stmt(141, {"mol"}, {}),
       Stmt(142, {"mol"}, {}),
       Stmt(143, {"mol"}, {}),
       Stmt(145, {"scf", "mol"}, {"mf"}),
       Stmt(146, {"scf", "mf"}, {"mf"}),
       Stmt(156, {"mcscf", "dmrgscf", "m"}, {"mc"}),
       Stmt(157, {"mol"}, {"idx"}),
       Stmt(159, {"dmet_cas", "mc", "mf", "idx"}, {"mo"}),
       Stmt(161, {"mc"}, {}),
       Stmt(162, {"mc", "mo"}, {}),
       Stmt(164, {"mc"}, {"e_q"}),
       Stmt(165, {"mc"}, {"cas_q"}),
       Stmt(170, {"mrpt", "mc"}, {"ept2_q"}),
       Stmt(182, {"mol"}, {}),
       Stmt(184, {"scf", "mol"}, {"mf"}),
       Stmt(185, {"scf", "mf"}, {"mf"}),
       Stmt(194, {"mcscf", "dmrgscf", "m"}, {"mc"}),
       Stmt(195, {"mol"}, {"idx"}),
       Stmt(197, {"dmet_cas", "mc", "mf", "idx3d"}, {"mo"}),
       Stmt(198, {"mc"}, {}),
       Stmt(199, {"mc", "mo"}, {}),
       Stmt(200, {"mc"}, {"mo"}),
       Stmt(202, {"mc"}, {"e_t"}),
       Stmt(203, {"mc"}, {"cas_t"}),
       Stmt(208, {"mrpt", "mc"}, {"ept2_t"}),
       Stmt(210, {"e_t", "e_q"}, {}),
       Stmt(214, {"reduce", "numpy", "cas_t", "mol", "cas_q"}, {"s"}),
       Stmt(215, {"numpy", "s"}, {}),
       Stmt(217, {"ept2_t", "ept2_q"}, {}) >>

\* the statement that prints the triplet and quintet energies and their gap
ReportLine == 210

BlankMole == [nao |-> 0, basis |-> "orthonormal", spin |-> 0]

BlankSCF == [mo_coeff |-> <<>>, mo_energy |-> <<>>, mo_occ |-> <<>>]

ScriptInit ==
    /\ heap = [id \in MolIds |-> BlankMole]
    /\ mol = 0
    /\ mf = BlankSCF
    /\ mc = [ncore |-> 0, ncas |-> 0, mol |-> 0, _scf |-> BlankSCF]
    /\ dm = <<>>
    /\ implst = <<>>
    /\ frame = NoFrame
    /\ pc = 1
    /\ names = ImportedNames
    /\ exc = "none"

\* what the statement at a line does to the objects
Effect(line) ==
    CASE line = 98 ->
            /\ mol' = 1
            /\ UNCHANGED <<heap, mf, mc, dm, implst, frame>>
      [] line = 99 ->
            /\ \E n \in 1..MaxNao : heap' = [heap EXCEPT ![mol].nao = n]
            /\ UNCHANGED <<mol, mf, mc, dm, implst, frame>>
      [] line = 138 ->
            /\ \E b \in Bases : heap' = [heap EXCEPT ![mol].basis = b]
            /\ UNCHANGED <<mol, mf, mc, dm, implst, frame>>
      [] line = 141 ->
            /\ heap' = [heap EXCEPT ![mol].spin = SpinQuintet]
            /\ UNCHANGED <<mol, mf, mc, dm, implst, frame>>
      [] line = 182 ->
            /\ heap' = [heap EXCEPT ![mol].spin = SpinTriplet]
            /\ UNCHANGED <<mol, mf, mc, dm, implst, frame>>
      [] line \in {145, 184} ->
            /\ mf' = BlankSCF
            /\ UNCHANGED <<heap, mol, mc, dm, implst, frame>>
      [] line \in {146, 185} ->
            /\ \E perm \in Orders(heap[mol].nao), ndocc \in 0..heap[mol].nao :
                  mf' = ROHF(heap[mol], perm, ndocc)
            /\ UNCHANGED <<heap, mol, mc, dm, implst, frame>>
      [] line \in {157, 195} ->
            /\ \E imp \in SUBSET (0..(heap[mol].nao - 1)) :
                  implst' = AscendingList(imp)
            /\ UNCHANGED <<heap, mol, mf, mc, dm, frame>>
      [] line = 159 ->
            /\ dm' = make_rdm1(mf)
            /\ frame' = dmet_cas_locals(mc, dm', implst, heap, heap[mol])
            /\ UNCHANGED <<heap, mol, mf, mc, implst>>
      [] OTHER ->
            UNCHANGED <<heap, mol, mf, mc, dm, implst, frame>>

\* the statement at pc runs: every name it reads is bound
Exec ==
    /\ exc = "none"
    /\ pc <= Len(Stmts)
    /\ Stmts[pc].uses \subseteq names
    /\ Effect(Stmts[pc].line)
    /\ names' = names \cup Stmts[pc].defs
    /\ pc' = pc + 1
    /\ UNCHANGED exc

\* the statement at pc reads a name that is not bound: the script ends
RaiseNameError ==
    /\ exc = "none"
    /\ pc <= Len(Stmts)
    /\ ~(Stmts[pc].uses \subseteq names)
    /\ exc' = "NameError"
    /\ UNCHANGED <<heap, mol, mf, mc, dm, implst, frame, pc, names>>

ScriptNext == Exec \/ RaiseNameError

ScriptSpec == ScriptInit /\ [][ScriptNext]_vars

----------------------------------------------------------------------------
(* Properties of dmet_cas, checked under Spec (C5 under ModuleSpec).       *)

\* the latest call returned mo_init
Returned == frame.line = 87

\* the latest call assigned the three blocks at lines 62-64
Sliced == frame.sliced # <<>>

Nao == nao_nr(heap[mc.mol])

\* the preconditions on the sizes; the impurity indices are distinct and in
\* range in every state of Spec
ValidSizes == Len(implst) <= mc.ncas /\ mc.ncore + mc.ncas <= Nao

\* the columns of a matrix, as a set
ColSet(A) == { [i \in 1..NRows(A) |-> A[i][j]] : j \in 1..NCols(A) }

\* columns first+1 .. first+count of a matrix, by position
ColRange(A, first, count) == TakeCols(A, [k \in 1..count |-> first + k - 1])

\* the occupation of each column x of A: x.T s D s x with D the spin-summed
\* density matrix of the caller and s the overlap the call used
Occupations(A) ==
    LET sds == Dot(Dot(frame.s, Add(dm[1], dm[2])), frame.s)
        g   == Dot(Dot(Transpose(A), sds), A)
    IN  [k \in 1..NCols(A) |-> g[k][k]]

\* the coefficients of the columns of A in the orthogonalized basis
OrthCoefficients(A) == Dot(cinv_of(frame.corth, frame.s), A)

\* C1: on inputs that meet the preconditions the blocks cut at lines 62-64
\* have widths ncore, ncas and nao - ncore - ncas, which add up to nao, and
\* the returned matrix has nao columns.
C1_BlockWidths ==
    /\ (Sliced /\ ValidSizes) =>
          /\ NCols(frame.sliced[1]) = mc.ncore
          /\ NCols(frame.sliced[2]) = mc.ncas
          /\ NCols(frame.sliced[3]) = Nao - mc.ncore - mc.ncas
          /\ NCols(frame.sliced[1]) + NCols(frame.sliced[2])
                + NCols(frame.sliced[3]) = Nao
    /\ (Returned /\ ValidSizes) => NCols(frame.mo_init) = Nao

C1_Witness ==
    /\ Returned /\ ValidSizes
    /\ mc.ncore > 0 /\ mc.ncas > 0 /\ Nao - mc.ncore - mc.ncas > 0
    /\ NCols(frame.mo_init) = Nao

\* C2: on inputs that meet the preconditions the returned matrix is core,
\* then active, then external: its columns [0, ncore) are the canonicalized
\* core block, [ncore, ncore+ncas) the canonicalized active block and the
\* rest the canonicalized external block, and each canonicalized block has
\* the columns of the block it was cut as, none moved to another block.
C2_BlockOrder ==
    (Returned /\ ValidSizes) =>
        /\ SliceCols(frame.mo_init, 0, mc.ncore) = frame.mocore
        /\ SliceCols(frame.mo_init, mc.ncore, mc.ncore + mc.ncas) = frame.mocas
        /\ SliceColsFrom(frame.mo_init, mc.ncore + mc.ncas) = frame.moext
        /\ ColSet(frame.mocore) = ColSet(frame.sliced[1])
        /\ ColSet(frame.mocas) = ColSet(frame.sliced[2])
        /\ ColSet(frame.moext) = ColSet(frame.sliced[3])
        /\ NCols(frame.mocore) = NCols(frame.sliced[1])
        /\ NCols(frame.mocas) = NCols(frame.sliced[2])
        /\ NCols(frame.moext) = NCols(frame.sliced[3])

\* a call whose canonicalization reordered the columns of the active block
C2_Witness ==
    /\ Returned /\ ValidSizes
    /\ mc.ncore > 0
    /\ frame.mocas # frame.sliced[2]
    /\ SliceCols(frame.mo_init, mc.ncore, mc.ncore + mc.ncas) = frame.mocas

\* the nao x 1 matrix whose column is the atomic orbital i (0-based)
UnitColumn(nao, i) == [r \in 1..nao |-> <<IF r = i + 1 THEN 1 ELSE 0>>]

\* the case nao = 4, ncore = 1, ncas = 2, implst = [1], identity overlap
\* and a diagonal density matrix whose entries at orbitals 0, 2, 3 are
\* distinct
C3_Scenario ==
    /\ Sliced
    /\ Nao = 4 /\ mc.ncore = 1 /\ mc.ncas = 2 /\ implst = <<1>>
    /\ frame.s = Identity(4)
    /\ IsDiagonal(Add(dm[1], dm[2]))
    /\ \A i, j \in {0, 2, 3} :
          i # j => Add(dm[1], dm[2])[i + 1][i + 1] # Add(dm[1], dm[2])[j + 1][j + 1]

\* C3: on inputs that meet the preconditions the bath-candidate natural
\* orbitals are in order of non-increasing occupation and the blocks are
\* cut from that order: core is the first ncore of them, the bath part of
\* the active block the next nbath = ncas - nimp, external the rest.  In
\* the case C3_Scenario core is the most occupied of the orbitals 0, 2, 3,
\* active is orbital 1 and the second most occupied, external the least
\* occupied.
C3_OccupationOrder ==
    /\ (Sliced /\ ValidSizes) =>
        LET occ == Occupations(frame.bathorb)
            nb  == NCols(frame.bathorb)
        IN  /\ \A k \in 1..(nb - 1) : occ[k] >= occ[k + 1]
            /\ frame.nbath = mc.ncas - Len(implst)
            /\ frame.sliced[1] = ColRange(frame.bathorb, 0, mc.ncore)
            /\ frame.sliced[2] =
                  hstack(frame.imporb,
                         ColRange(frame.bathorb, mc.ncore, frame.nbath))
            /\ frame.sliced[3] =
                  ColRange(frame.bathorb, mc.ncore + frame.nbath,
                           nb - mc.ncore - frame.nbath)
    /\ C3_Scenario =>
        LET d == [i \in {0, 2, 3} |-> Add(dm[1], dm[2])[i + 1][i + 1]]
        IN  \E a, b, c \in {0, 2, 3} :
                /\ d[a] > d[b] /\ d[b] > d[c]
                /\ frame.sliced[1] = UnitColumn(4, a)
                /\ frame.sliced[2] = hstack(UnitColumn(4, 1), UnitColumn(4, b))
                /\ frame.sliced[3] = UnitColumn(4, c)

\* the case C3_Scenario with the most occupied orbital not the first one
C3_Witness ==
    /\ Returned
    /\ C3_Scenario
    /\ frame.sliced[1] = UnitColumn(4, 3)
    /\ frame.sliced[2] = hstack(UnitColumn(4, 1), UnitColumn(4, 2))
    /\ frame.sliced[3] = UnitColumn(4, 0)

\* C8: when nimp = ncas, nbath is 0, the active block as cut is exactly
\* imporb, it holds no bath-candidate column, and every bath-candidate
\* column is in core (the first ncore) or in external (all the others).
C8_NoBath ==
    (Sliced /\ Len(implst) = mc.ncas) =>
        /\ frame.nbath = 0
        /\ frame.sliced[2] = frame.imporb
        /\ ColSet(frame.sliced[2]) \cap ColSet(frame.bathorb) = {}
        /\ frame.sliced[1] = ColRange(frame.bathorb, 0, mc.ncore)
        /\ frame.sliced[3] =
              ColRange(frame.bathorb, mc.ncore,
                       NCols(frame.bathorb) - mc.ncore)

C8_Witness ==
    /\ Returned
    /\ Len(implst) = mc.ncas
    /\ mc.ncore > 0
    /\ NCols(frame.sliced[3]) > 0
    /\ frame.sliced[2] = frame.imporb

\* C9: on inputs that meet the preconditions the columns of the returned
\* matrix are orthonormal under the overlap: mo_init.T s mo_init = 1.
C9_Orthonormal ==
    (Returned /\ ValidSizes) =>
        Dot(Dot(Transpose(frame.mo_init), frame.s), frame.mo_init)
            = Identity(Nao)

\* a call on a basis whose overlap is not the identity
C9_Witness ==
    /\ Returned /\ ValidSizes
    /\ frame.s # Identity(Nao)
    /\ mc.ncore > 0 /\ mc.ncas > 0
    /\ Dot(Dot(Transpose(frame.mo_init), frame.s), frame.mo_init)
          = Identity(Nao)

\* C10: implst and notimp are disjoint and together cover [0, nao), notimp
\* is ascending, the first nimp columns of the active block as cut are
\* imporb and combine orthogonalized orbitals at impurity indices only, and
\* every column of bathorb combines orthogonalized orbitals at notimp
\* indices only.
C10_IndexSplit ==
    /\ frame.line # 0 =>
          LET imps == {implst[k] : k \in 1..Len(implst)}
              nots == {frame.notimp[k] : k \in 1..Len(frame.notimp)}
          IN  /\ imps \cap nots = {}
              /\ imps \cup nots = 0..(Nao - 1)
              /\ \A k \in 1..(Len(frame.notimp) - 1) :
                    frame.notimp[k] < frame.notimp[k + 1]
    /\ Sliced =>
          LET ci == OrthCoefficients(frame.imporb)
              cb == OrthCoefficients(frame.bathorb)
          IN  /\ SliceCols(frame.sliced[2], 0, Len(implst)) = frame.imporb
              /\ \A k \in 1..Len(frame.notimp) : \A j \in 1..NCols(ci) :
                    ci[frame.notimp[k] + 1][j] = 0
              /\ \A k \in 1..Len(implst) : \A j \in 1..NCols(cb) :
                    cb[implst[k] + 1][j] = 0

C10_Witness ==
    /\ Returned
    /\ Len(implst) >= 1
    /\ Len(frame.notimp) >= 2
    /\ frame.corth # Identity(Nao)
    /\ SliceCols(frame.sliced[2], 0, Len(implst)) = frame.imporb

C4_InvalidPartitionRaised ==
    (frame.line # 0 /\ frame.nimp > mc.ncas) =>
        /\ frame.exc = "InvalidPartition"
        /\ frame.mo_init = <<>>

\* C5: a call with the arguments of an earlier call returns what the
\* earlier call returned, whatever happened to the module-level mol in
\* between (the arguments never change in ModuleSpec).
C5_FunctionOfArguments ==
    [][(dmet_cas /\ frame.line = 87 /\ frame'.line = 87)
          => frame'.mo_init = frame.mo_init]_vars

----------------------------------------------------------------------------
(* Properties of the script, checked under ScriptSpec.                     *)

\* the position in Stmts of the statement at a line
StmtAt(line) == CHOOSE k \in 1..Len(Stmts) : Stmts[k].line = line

\* C6: the script runs its statements in order up to the report of line
\* 210 without an exception, every name a statement reads having been bound
\* by an earlier one.
C6_ScriptReachesReport ==
    /\ exc = "none"
    /\ pc <= StmtAt(ReportLine) => Stmts[pc].uses \subseteq names

====
